---- MODULE Spec2Model ----
(***************************************************************************)
(* Model of streamlit_app.py: the CanvaToHTMLAgent (analyze_design,        *)
(* generate_html_css, _extract_html) and the Streamlit script around it    *)
(* (widgets, the generate button handler, the session state).              *)
(*                                                                         *)
(* Texts that _extract_html scans are sequences of one-character strings,  *)
(* indexed from 0 as in Python (character i of s is s[i + 1]).             *)
(***************************************************************************)
EXTENDS Integers, Sequences, FiniteSets, TLC

(***************************************************************************)
(* Bounds of the model.                                                    *)
(***************************************************************************)
\* the response texts handed to _extract_html are made of at most MaxChunks chunks
MaxChunks == 5
\* the generate button is clicked at most MaxRuns times in a session
MaxRuns == 3

(***************************************************************************)
(* Python's str operations, as _extract_html uses them.                    *)
(***************************************************************************)
\* the backquote character, which a TLA+ string cannot hold
BQ == "backquote"

\* the literals of lines 154-164
FENCE_HTML == <<BQ, BQ, BQ, "h", "t", "m", "l">>
FENCE == <<BQ, BQ, BQ>>
DOCTYPE == <<"<", "!", "D", "O", "C", "T", "Y", "P", "E">>
CLOSE_HTML == <<"<", "/", "h", "t", "m", "l", ">">>

\* the characters str.strip() removes among those the model's texts are made of
Whitespace == {" ", "\n", "\t"}

\* sub occurs in s at the 0-based index i
OccursAt(s, sub, i) ==
    /\ i >= 0
    /\ i + Len(sub) <= Len(s)
    /\ \A k \in 1..Len(sub) : s[i + k] = sub[k]

\* sub in s
In(sub, s) == \E i \in 0..Len(s) : OccursAt(s, sub, i)

\* s.find(sub, start): the lowest index >= start where sub occurs, or -1
Find(s, sub, start) ==
    LET hits == {i \in start..Len(s) : OccursAt(s, sub, i)}
    IN  IF hits = {} THEN -1
        ELSE CHOOSE i \in hits : \A j \in hits : i <= j

\* a plausible slip: the first occurrence where the last one is meant
RFindFirst(s, sub) == Find(s, sub, 0)

\* s.rfind(sub): the highest index where sub occurs, or -1
RFind(s, sub) ==
    LET hits == {i \in 0..Len(s) : OccursAt(s, sub, i)}
    IN  IF hits = {} THEN -1
        ELSE CHOOSE i \in hits : \A j \in hits : j <= i

\* s[start:end] for start >= 0: a negative end counts from the end of s,
\* both ends are clamped to the length, and an empty range gives ""
Slice(s, start, end) ==
    LET n == Len(s)
        e0 == IF end < 0 THEN end + n ELSE end
        e == IF e0 < 0 THEN 0 ELSE IF e0 > n THEN n ELSE e0
        b == IF start > n THEN n ELSE start
    IN  IF b >= e THEN <<>> ELSE SubSeq(s, b + 1, e)

\* s.strip(): s without its leading and trailing whitespace
Strip(s) ==
    LET keep == {i \in 1..Len(s) : s[i] \notin Whitespace}
    IN  IF keep = {} THEN <<>>
        ELSE LET lo == CHOOSE i \in keep : \A j \in keep : i <= j
                 hi == CHOOSE i \in keep : \A j \in keep : j <= i
             IN  SubSeq(s, lo, hi)

(***************************************************************************)
(* CanvaToHTMLAgent._extract_html                                          *)
(***************************************************************************)
\* a plausible slip: the closing tag's own length left out
DoctypeEndExclusive(response_text) == RFind(response_text, CLOSE_HTML)

\* line 164: end = response_text.rfind("</html>") + 7
DoctypeEnd(response_text) == RFind(response_text, CLOSE_HTML) + 7

\* a plausible slip: the doctype scan tried before the fences
ExtractDoctypeFirst(response_text) ==
    LET dstart == Find(response_text, DOCTYPE, 0)
        dend == DoctypeEnd(response_text)
    IN  IF In(DOCTYPE, response_text) /\ dend > dstart
        THEN Strip(Slice(response_text, dstart, dend))
        ELSE IF In(DOCTYPE, response_text)
        THEN Strip(response_text)
        ELSE IF In(FENCE_HTML, response_text)
        THEN LET start == Find(response_text, FENCE_HTML, 0) + 7
                 end == Find(response_text, FENCE, start)
             IN  Strip(Slice(response_text, start, end))
        ELSE IF In(FENCE, response_text)
        THEN LET start == Find(response_text, FENCE, 0) + 3
                 end == Find(response_text, FENCE, start)
             IN  Strip(Slice(response_text, start, end))
        ELSE Strip(response_text)

\* lines 152-167
_extract_html(response_text) ==
    IF In(FENCE_HTML, response_text)
    THEN LET start == Find(response_text, FENCE_HTML, 0) + 7
             end == Find(response_text, FENCE, start)
         IN  Strip(Slice(response_text, start, end))
    ELSE IF In(FENCE, response_text)
    THEN LET start == Find(response_text, FENCE, 0) + 3
             end == Find(response_text, FENCE, start)
         IN  Strip(Slice(response_text, start, end))
    ELSE IF In(DOCTYPE, response_text)
    THEN LET start == Find(response_text, DOCTYPE, 0)
             end == DoctypeEnd(response_text)
         IN  IF end > start
             THEN Strip(Slice(response_text, start, end))
             ELSE Strip(response_text)
    ELSE Strip(response_text)

(***************************************************************************)
(* The generation service: model.generate_content either returns a         *)
(* response with a text or raises an exception carrying a message.         *)
(***************************************************************************)
AnalysisTexts == {"Layout: header+footer", "Layout: hero and cards"}
ErrorMessages == {"quota exceeded", "network unreachable"}

\* replies to the synthesis request: a fenced document in prose, a bare
\* document, and prose with neither fence nor doctype
Replies ==
    { <<"N", "o", "t", "e", ":", "\n">> \o FENCE_HTML \o <<"\n">> \o DOCTYPE
          \o <<"a">> \o CLOSE_HTML \o <<"\n">> \o FENCE,
      DOCTYPE \o <<"b">> \o CLOSE_HTML \o <<"\n">>,
      <<"n", "o", " ", "c", "o", "d", "e">> }

Returned(text) == [raised |-> FALSE, text |-> text]
Raised(message) == [raised |-> TRUE, exception |-> [args |-> <<message>>]]

AnalysisOutcomes ==
    {Returned(t) : t \in AnalysisTexts} \cup {Raised(m) : m \in ErrorMessages}
SynthesisOutcomes ==
    {Returned(t) : t \in Replies} \cup {Raised(m) : m \in ErrorMessages}

\* str(e) of an exception built from one message: the message
StrOfException(e) == e.args[1]

(***************************************************************************)
(* CanvaToHTMLAgent.analyze_design, given the outcome of its one           *)
(* generate_content call.                                                  *)
(***************************************************************************)
\* a plausible slip: the failure result decorates the message
analyze_design_prefixed(outcome) ==
    IF outcome.raised
    THEN [error |-> "Analysis failed: " \o StrOfException(outcome.exception),
          success |-> FALSE]
    ELSE [raw_analysis |-> outcome.text, success |-> TRUE]

analyze_design(outcome) ==
    IF outcome.raised
    THEN [error |-> StrOfException(outcome.exception), success |-> FALSE]
    ELSE [raw_analysis |-> outcome.text, success |-> TRUE]

(***************************************************************************)
(* CanvaToHTMLAgent.generate_html_css: the customization instructions.     *)
(***************************************************************************)
\* a plausible slip: the line is appended whether or not the field is set
AppendAlways(list, present, line) == Append(list, line)

\* if customizations.get(field): custom_css.append(line)
AppendIf(list, present, line) == IF present THEN Append(list, line) ELSE list

\* lines 105-117: custom_css
BuildCustomCss(customizations) ==
    LET c1 == AppendIf(<<>>, customizations.color_scheme # "",
                  "Use a " \o customizations.color_scheme \o " color scheme")
        c2 == AppendIf(c1, customizations.font_size # "",
                  "Use " \o customizations.font_size \o " font sizes")
        c3 == AppendIf(c2, customizations.spacing # "",
                  "Use " \o customizations.spacing \o " spacing")
        c4 == AppendIf(c3, customizations.button_style # "",
                  "Style buttons as " \o customizations.button_style)
        c5 == AppendIf(c4, customizations.animations,
                  "Add smooth CSS animations and transitions")
    IN  AppendIf(c5, customizations.custom_instructions # "",
            customizations.custom_instructions)

\* sep.join(list)
RECURSIVE Join(_, _)
Join(sep, list) ==
    IF list = <<>> THEN ""
    ELSE IF Len(list) = 1 THEN list[1]
    ELSE list[1] \o sep \o Join(sep, Tail(list))

\* a plausible slip: no fallback for the empty list
CustomizationTextNoFallback(custom_css) == Join("\n- ", custom_css)

\* lines 119-121: customization_text
CustomizationText(custom_css) ==
    IF custom_css # <<>> THEN Join("\n- ", custom_css)
    ELSE "Follow original design"

\* lines 123-143: code_prompt, as the parts the f-string puts together
CodePrompt(analysis, customization_text) ==
    [ head |-> "Generate complete HTML and CSS code based on this analysis:",
      analysis |-> IF "raw_analysis" \in DOMAIN analysis
                   THEN analysis.raw_analysis ELSE "",
      customizations_bullet |-> "- ",
      customizations |-> customization_text,
      requirements |-> 10,
      output |-> "Provide ONLY complete HTML code. Start with <!DOCTYPE html> and end with </html>. No explanations." ]

\* lines 145-150, given the outcome of the one generate_content call
generate_html_css(analysis, outcome) ==
    IF outcome.raised
    THEN [error |-> StrOfException(outcome.exception), success |-> FALSE]
    ELSE [html |-> _extract_html(outcome.text), success |-> TRUE]

(***************************************************************************)
(* The response texts the extractor is checked on: every concatenation of  *)
(* at most MaxChunks chunks.  The chunks are the delimiters the extractor  *)
(* looks for, whitespace and prose.                                        *)
(***************************************************************************)
Chunks ==
    { FENCE_HTML, FENCE, DOCTYPE, CLOSE_HTML,
      <<" ">>, <<"x">>, <<"N", "o", "t", "e", ":", "\n">> }

RECURSIVE TextsOf(_)
TextsOf(n) ==
    IF n = 0 THEN {<<>>}
    ELSE LET shorter == TextsOf(n - 1)
         IN  shorter \cup {t \o c : t \in shorter, c \in Chunks}

Texts == TextsOf(MaxChunks)

(***************************************************************************)
(* The sidebar widgets (lines 200-232) and what the generate button        *)
(* handler makes of them (lines 271-284).                                  *)
(***************************************************************************)
ColorSchemeOptions ==
    { "Original (from design)", "Modern Dark", "Light & Minimal",
      "Vibrant & Colorful", "Professional Blue", "Warm Earth Tones" }
FontSizeOptions ==
    {"Standard", "Small (Mobile-friendly)", "Large (Accessibility)", "Extra Large"}
SpacingOptions == {"Normal", "Compact", "Generous", "Extra Spacious"}
ButtonStyleOptions ==
    {"Original", "Rounded with Shadow", "Flat Modern", "Gradient", "Outlined"}
\* what the user may type into the custom instructions text area
FreeTexts ==
    { "", "Add a sticky navigation bar", "Make hero section full-screen",
      "Use a grid\nKeep the footer" }

\* option.split()[0].lower() on the font size options
FirstWordLower(option) ==
    CASE option = "Standard" -> "standard"
      [] option = "Small (Mobile-friendly)" -> "small"
      [] option = "Large (Accessibility)" -> "large"
      [] option = "Extra Large" -> "extra"

\* option.lower() on the spacing and button style options
Lower(option) ==
    CASE option = "Normal" -> "normal"
      [] option = "Compact" -> "compact"
      [] option = "Generous" -> "generous"
      [] option = "Extra Spacious" -> "extra spacious"
      [] option = "Original" -> "original"
      [] option = "Rounded with Shadow" -> "rounded with shadow"
      [] option = "Flat Modern" -> "flat modern"
      [] option = "Gradient" -> "gradient"
      [] option = "Outlined" -> "outlined"

\* lines 271-284: the customizations dict
Customizations(cs, fs, sp, bs, an, ci) ==
    [ color_scheme |-> IF cs # "Original (from design)" THEN cs ELSE "",
      font_size |-> IF fs # "Standard" THEN FirstWordLower(fs) ELSE "",
      spacing |-> IF sp # "Normal" THEN Lower(sp) ELSE "",
      button_style |-> IF bs # "Original" THEN Lower(bs) ELSE "",
      animations |-> an,
      custom_instructions |-> ci ]

None == [none |-> TRUE]
Str(s) == [none |-> FALSE, value |-> s]

VARIABLES
    xpc,              \* where the extraction run is: "input", "extracted", "again"
    response_text,    \* the text of the service's reply
    html_code,        \* _extract_html(response_text)
    html_again        \* _extract_html(html_code)

VARIABLES
    ppc,                  \* "widgets", "prepared", "built"
    color_scheme, font_size, spacing, button_style, animations,
    custom_instructions,  \* the sidebar widgets
    customizations,       \* the handler's customizations dict
    custom_css,           \* generate_html_css's list of instructions
    code_prompt           \* generate_html_css's prompt

VARIABLES
    api_key,          \* the sidebar's key field: "" or a key
    uploaded_file,    \* the uploader: None or a file
    pc,               \* where the script run is
    run,              \* how many times the generate button was clicked
    analysis,         \* the handler's local: analyze_design's result
    result,           \* the handler's local: generate_html_css's result
    session_state,    \* st.session_state: analysis and generated_html
    requests,         \* the generate_content requests of the current click
    page_error,       \* what st.error showed in the current run
    analysis_run,     \* the click that wrote session_state.analysis
    html_run          \* the click that wrote session_state.generated_html

xvars == <<xpc, response_text, html_code, html_again>>
pvars == <<ppc, color_scheme, font_size, spacing, button_style, animations,
           custom_instructions, customizations, custom_css, code_prompt>>
svars == <<api_key, uploaded_file, pc, run, analysis, result, session_state,
           requests, page_error, analysis_run, html_run>>
vars == <<xvars, pvars, svars>>

(***************************************************************************)
(* Each specification drives one part of the program and leaves the        *)
(* variables of the others at rest.                                        *)
(***************************************************************************)
ExtractAtRest ==
    /\ xpc = "off"
    /\ response_text = <<>>
    /\ html_code = <<>>
    /\ html_again = <<>>

\* the widgets' initial values: each selectbox's first option, the checkbox's
\* value=True, an empty text area
PromptAtRest ==
    /\ ppc = "off"
    /\ color_scheme = "Original (from design)"
    /\ font_size = "Standard"
    /\ spacing = "Normal"
    /\ button_style = "Original"
    /\ animations = TRUE
    /\ custom_instructions = ""
    /\ customizations = None
    /\ custom_css = <<>>
    /\ code_prompt = None

\* lines 170-174: the session state as the first run of the script sets it
SessionInit ==
    /\ api_key = ""
    /\ uploaded_file = None
    /\ pc = "idle"
    /\ run = 0
    /\ analysis = None
    /\ result = None
    /\ session_state = [analysis |-> None, generated_html |-> None]
    /\ requests = <<>>
    /\ page_error = None
    /\ analysis_run = 0
    /\ html_run = 0

(***************************************************************************)
(* _extract_html on every text of Texts, and on its own output.            *)
(***************************************************************************)
ExtractInit ==
    /\ xpc = "input"
    /\ response_text \in Texts
    /\ html_code = <<>>
    /\ html_again = <<>>
    /\ PromptAtRest
    /\ SessionInit

\* html_code = self._extract_html(response.text)
Extract ==
    /\ xpc = "input"
    /\ html_code' = _extract_html(response_text)
    /\ xpc' = "extracted"
    /\ UNCHANGED <<response_text, html_again, pvars, svars>>

\* the extractor run on its own output
ExtractAgain ==
    /\ xpc = "extracted"
    /\ html_again' = _extract_html(html_code)
    /\ xpc' = "again"
    /\ UNCHANGED <<response_text, html_code, pvars, svars>>

ExtractNext == Extract \/ ExtractAgain

SpecExtract == ExtractInit /\ [][ExtractNext]_vars

(***************************************************************************)
(* The synthesis prompt for every selection of the widgets.                *)
(***************************************************************************)
PromptInit ==
    /\ ppc = "widgets"
    /\ color_scheme \in ColorSchemeOptions
    /\ font_size \in FontSizeOptions
    /\ spacing \in SpacingOptions
    /\ button_style \in ButtonStyleOptions
    /\ animations \in BOOLEAN
    /\ custom_instructions \in FreeTexts
    /\ customizations = None
    /\ custom_css = <<>>
    /\ code_prompt = None
    /\ ExtractAtRest
    /\ SessionInit

\* lines 271-284
PrepareCustomizations ==
    /\ ppc = "widgets"
    /\ customizations' = Customizations(color_scheme, font_size, spacing,
                             button_style, animations, custom_instructions)
    /\ ppc' = "prepared"
    /\ UNCHANGED <<color_scheme, font_size, spacing, button_style, animations,
                   custom_instructions, custom_css, code_prompt, xvars, svars>>

\* lines 104-143, for any analysis the first stage returned
BuildPrompt ==
    /\ ppc = "prepared"
    /\ \E text \in AnalysisTexts :
        /\ custom_css' = BuildCustomCss(customizations)
        /\ code_prompt' = CodePrompt(analyze_design(Returned(text)),
                              CustomizationText(custom_css'))
    /\ ppc' = "built"
    /\ UNCHANGED <<color_scheme, font_size, spacing, button_style, animations,
                   custom_instructions, customizations, xvars, svars>>

PromptNext == PrepareCustomizations \/ BuildPrompt

SpecPrompt == PromptInit /\ [][PromptNext]_vars

(***************************************************************************)
(* The script, run after run in one browser session.  The service answers  *)
(* each request as it likes, whatever the prompt, so the prompts are left  *)
(* to SpecPrompt and a request is recorded by the operation that made it.  *)
(***************************************************************************)
ApiKeys == {"", "key"}
Files == {None, Str("design.png")}

\* python's truth value of a str-or-None
Truthy(v) == ~v.none /\ v.value # "" /\ v.value # <<>>

\* a plausible slip: the failure check left out
AnalysisCheckSkipped(a) == TRUE

\* line 294: analysis.get("success")
AnalysisSucceeded(a) == IF "success" \in DOMAIN a THEN a.success ELSE FALSE

\* lines 316-358: what the results section shows, if it shows anything
ResultsSection ==
    IF Truthy(session_state.generated_html)
    THEN [ shown |-> TRUE,
           preview |-> session_state.generated_html.value,
           analysis_text |->
               IF session_state.analysis # None
               THEN (IF "raw_analysis" \in DOMAIN session_state.analysis
                     THEN session_state.analysis.raw_analysis ELSE "")
               ELSE "No analysis available" ]
    ELSE [shown |-> FALSE]

Parked == UNCHANGED <<xvars, pvars>>

\* the key field edited: the script reruns with the button not pressed
EnterApiKey ==
    /\ pc = "idle"
    /\ \E k \in ApiKeys : k # api_key /\ api_key' = k
    /\ page_error' = None
    /\ UNCHANGED <<uploaded_file, pc, run, analysis, result, session_state,
                   requests, analysis_run, html_run>>
    /\ Parked

\* a file chosen or removed: the script reruns with the button not pressed
UploadFile ==
    /\ pc = "idle"
    /\ \E f \in Files : f # uploaded_file /\ uploaded_file' = f
    /\ page_error' = None
    /\ UNCHANGED <<api_key, pc, run, analysis, result, session_state,
                   requests, analysis_run, html_run>>
    /\ Parked

\* lines 263-289: the button is there only with a key and a file; a click
\* starts a run of the handler
ClickGenerate ==
    /\ pc = "idle"
    /\ api_key # ""
    /\ uploaded_file # None
    /\ run < MaxRuns
    /\ run' = run + 1
    /\ requests' = <<>>
    /\ page_error' = None
    /\ analysis' = None
    /\ result' = None
    /\ pc' = "analyze"
    /\ UNCHANGED <<api_key, uploaded_file, session_state, analysis_run, html_run>>
    /\ Parked

\* lines 288-289 and 312-313: building the agent or opening the image raises;
\* the error is shown and the script goes on
SetupError ==
    /\ pc = "analyze"
    /\ requests = <<>>
    /\ page_error' = Str("cannot identify image file")
    /\ pc' = "results"
    /\ UNCHANGED <<api_key, uploaded_file, run, analysis, result, session_state,
                   requests, analysis_run, html_run>>
    /\ Parked

\* line 292: analysis = agent.analyze_design(image, custom_instructions)
AnalyzeDesign ==
    /\ pc = "analyze"
    /\ \E outcome \in AnalysisOutcomes :
        /\ analysis' = analyze_design(outcome)
        /\ requests' = Append(requests, [op |-> "analyze_design", outcome |-> outcome])
    /\ pc' = "analyzed"
    /\ UNCHANGED <<api_key, uploaded_file, run, result, session_state,
                   page_error, analysis_run, html_run>>
    /\ Parked

\* lines 294-296: the error is shown and st.stop() ends the run
AnalysisError ==
    /\ pc = "analyzed"
    /\ ~AnalysisSucceeded(analysis)
    /\ page_error' = Str(IF "error" \in DOMAIN analysis THEN analysis.error ELSE "None")
    /\ pc' = "idle"
    /\ UNCHANGED <<api_key, uploaded_file, run, analysis, result, session_state,
                   requests, analysis_run, html_run>>
    /\ Parked

\* line 298: st.session_state.analysis = analysis
StoreAnalysis ==
    /\ pc = "analyzed"
    /\ AnalysisSucceeded(analysis)
    /\ session_state' = [session_state EXCEPT !.analysis = analysis]
    /\ analysis_run' = run
    /\ pc' = "generate"
    /\ UNCHANGED <<api_key, uploaded_file, run, analysis, result, requests,
                   page_error, html_run>>
    /\ Parked

\* line 304: result = agent.generate_html_css(analysis, image, customizations)
GenerateHtmlCss ==
    /\ pc = "generate"
    /\ \E outcome \in SynthesisOutcomes :
        /\ result' = generate_html_css(analysis, outcome)
        /\ requests' = Append(requests, [op |-> "generate_html_css", outcome |-> outcome])
    /\ pc' = "generated"
    /\ UNCHANGED <<api_key, uploaded_file, run, analysis, session_state,
                   page_error, analysis_run, html_run>>
    /\ Parked

\* lines 306-308: st.session_state.generated_html = result["html"]
StoreResult ==
    /\ pc = "generated"
    /\ result.success
    /\ session_state' = [session_state EXCEPT !.generated_html = Str(result.html)]
    /\ html_run' = run
    /\ pc' = "results"
    /\ UNCHANGED <<api_key, uploaded_file, run, analysis, result, requests,
                   page_error, analysis_run>>
    /\ Parked

\* lines 309-310: the error is shown and the script goes on
GenerationError ==
    /\ pc = "generated"
    /\ ~result.success
    /\ page_error' = Str(result.error)
    /\ pc' = "results"
    /\ UNCHANGED <<api_key, uploaded_file, run, analysis, result, session_state,
                   requests, analysis_run, html_run>>
    /\ Parked

\* lines 315-369: the rest of the script, which changes no state
FinishRun ==
    /\ pc = "results"
    /\ pc' = "idle"
    /\ UNCHANGED <<api_key, uploaded_file, run, analysis, result, session_state,
                   requests, page_error, analysis_run, html_run>>
    /\ Parked

Init == SessionInit /\ ExtractAtRest /\ PromptAtRest

Next ==
    \/ EnterApiKey
    \/ UploadFile
    \/ ClickGenerate
    \/ SetupError
    \/ AnalyzeDesign
    \/ AnalysisError
    \/ StoreAnalysis
    \/ GenerateHtmlCss
    \/ StoreResult
    \/ GenerationError
    \/ FinishRun

Spec == Init /\ [][Next]_vars

(***************************************************************************)
(* What the claims about _extract_html speak of, stated from positions in  *)
(* the text and not from the extractor's own computation.                  *)
(***************************************************************************)
Occurrences(s, sub) == {i \in 0..Len(s) : OccursAt(s, sub, i)}
Lowest(S) == CHOOSE i \in S : \A j \in S : i <= j
Highest(S) == CHOOSE i \in S : \A j \in S : j <= i

Extracted == xpc \in {"extracted", "again"}
NoFence == Occurrences(response_text, FENCE) = {}
HasDoctype == Occurrences(response_text, DOCTYPE) # {}
DoctypeAt == Lowest(Occurrences(response_text, DOCTYPE))
Closings == Occurrences(response_text, CLOSE_HTML)

\* the first html-tagged fence, the first fence delimiter after it, and the text between
HtmlBodyStart == Lowest(Occurrences(response_text, FENCE_HTML)) + 7
HtmlClosers == {j \in Occurrences(response_text, FENCE) : j >= HtmlBodyStart}
HasClosedHtmlBlock ==
    /\ Occurrences(response_text, FENCE_HTML) # {}
    /\ HtmlClosers # {}
HtmlBodyEnd == Lowest(HtmlClosers)
FencedContent == Strip(SubSeq(response_text, HtmlBodyStart + 1, HtmlBodyEnd))
DoctypeElsewhere ==
    \E d \in Occurrences(response_text, DOCTYPE) :
        \/ d + 9 <= HtmlBodyStart - 7
        \/ d >= HtmlBodyEnd + 3

\* C2: a text holding a closed html-tagged fenced block and a doctype outside
\* that block is extracted to the trimmed content of the fenced block.
C2_HtmlFenceBeforeDoctype ==
    (Extracted /\ HasClosedHtmlBlock /\ DoctypeElsewhere)
        => html_code = FencedContent

\* C2's case: a fenced block with content, a doctype and a closing root tag in
\* the prose around it (so that the doctype scan would have found a span)
C2_Witness ==
    /\ xpc = "extracted"
    /\ HasClosedHtmlBlock
    /\ DoctypeElsewhere
    /\ Closings # {} /\ Highest(Closings) > DoctypeAt
    /\ FencedContent # <<>>
    /\ html_code = FencedContent

\* the span from the doctype to the end of the last closing root tag
DoctypeSpan ==
    IF Highest(Closings) + 7 > DoctypeAt
    THEN SubSeq(response_text, DoctypeAt + 1, Highest(Closings) + 7)
    ELSE <<>>

\* C3 as stated: without fences, with a doctype and two or more closing root
\* tags, the result is the trimmed span from the doctype to the last closing tag.
C3_Original ==
    (Extracted /\ NoFence /\ HasDoctype /\ Cardinality(Closings) >= 2)
        => html_code = Strip(DoctypeSpan)

\* C3 as amended: that span is the result when the last closing root tag lies
\* after the doctype; when every closing tag precedes the doctype the result is
\* the whole text, trimmed.
C3_LastClosingTag ==
    (Extracted /\ NoFence /\ HasDoctype /\ Cardinality(Closings) >= 2)
        => IF Highest(Closings) > DoctypeAt
           THEN html_code = Strip(DoctypeSpan)
           ELSE html_code = Strip(response_text)

\* C3's case: two closing tags after the doctype, text after the first of them
C3_Witness ==
    /\ xpc = "extracted"
    /\ NoFence /\ HasDoctype
    /\ Cardinality({c \in Closings : c > DoctypeAt}) >= 2
    /\ html_code = Strip(DoctypeSpan)
    /\ Len(html_code) > Lowest(Closings) + 7 - DoctypeAt

\* a bare HTML document: it starts at the doctype, ends at the closing root tag
\* and holds no fence delimiter
BareHtmlDocument(doc) ==
    /\ Occurrences(doc, FENCE) = {}
    /\ OccursAt(doc, DOCTYPE, 0)
    /\ OccursAt(doc, CLOSE_HTML, Len(doc) - 7)

\* C6: when the extraction of a text is a bare HTML document without fences,
\* extracting it again returns it unchanged.
C6_ExtractionIdempotent ==
    (xpc = "again" /\ BareHtmlDocument(html_code)) => html_again = html_code

\* C6's case: the first extraction cut something away, the second did not
C6_Witness ==
    /\ xpc = "again"
    /\ BareHtmlDocument(html_code)
    /\ html_code # response_text
    /\ Cardinality(Occurrences(html_code, CLOSE_HTML)) >= 2
    /\ html_again = html_code

\* C8: without fences and without a closing root tag, a text holding a doctype
\* (wherever it stands) is returned whole, trimmed.
C8_TruncatedDocumentKeptWhole ==
    (Extracted /\ NoFence /\ HasDoctype /\ Closings = {})
        => html_code = Strip(response_text)

\* where the text after the opening fence starts: after the first html-tagged
\* fence when there is one, else after the first fence delimiter
OpenEnd ==
    IF Occurrences(response_text, FENCE_HTML) # {}
    THEN Lowest(Occurrences(response_text, FENCE_HTML)) + 7
    ELSE Lowest(Occurrences(response_text, FENCE)) + 3
Unclosed ==
    /\ ~NoFence
    /\ \A j \in Occurrences(response_text, FENCE) : j < OpenEnd

\* C10: an opening fence with no fence delimiter after it: the result is all of
\* the text after the opening delimiter, trimmed.
C10_UnclosedFenceKeepsRest ==
    (Extracted /\ Unclosed)
        => html_code = Strip(SubSeq(response_text, OpenEnd + 1, Len(response_text)))

(***************************************************************************)
(* The claims about the synthesis prompt (SpecPrompt).                     *)
(***************************************************************************)
FieldOrder ==
    << "color_scheme", "font_size", "spacing", "button_style", "animations",
       "custom_instructions" >>

IsSet(c, f) == IF f = "animations" THEN c.animations ELSE c[f] # ""

\* the fields of the customization record that are set, by their place in the order
SetFields(c) == {i \in 1..6 : IsSet(c, FieldOrder[i])}

\* the instruction the prompt is to carry for a field
InstructionFor(c, f) ==
    CASE f = "color_scheme" -> "Use a " \o c.color_scheme \o " color scheme"
      [] f = "font_size" -> "Use " \o c.font_size \o " font sizes"
      [] f = "spacing" -> "Use " \o c.spacing \o " spacing"
      [] f = "button_style" -> "Style buttons as " \o c.button_style
      [] f = "animations" -> "Add smooth CSS animations and transitions"
      [] f = "custom_instructions" -> c.custom_instructions

\* C4: with every field of the customization record empty and animations
\* false, the prompt's customization text is exactly "Follow original design".
C4_EmptyCustomizationsFallback ==
    (ppc = "built" /\ SetFields(customizations) = {})
        => code_prompt.customizations = "Follow original design"

C4_Witness ==
    /\ ppc = "built"
    /\ SetFields(customizations) = {}
    /\ custom_css = <<>>
    /\ code_prompt.customizations = "Follow original design"

\* C5: with at least one field set, the instruction list holds one line per set
\* field and none for an unset field, in the order color scheme, font size,
\* spacing, button style, animations, free text; the prompt's customization
\* text is these lines, each after the first on a line of its own.
C5_OneLinePerSetFieldInOrder ==
    (ppc = "built" /\ SetFields(customizations) # {})
        => LET set == SetFields(customizations)
               Rank(i) == Cardinality({j \in set : j <= i})
           IN  /\ Len(custom_css) = Cardinality(set)
               /\ \A i \in set :
                      custom_css[Rank(i)] = InstructionFor(customizations, FieldOrder[i])
               /\ code_prompt.customizations = Join("\n- ", custom_css)
               /\ code_prompt.customizations # "Follow original design"

\* C5's case: some fields set and others not, the free text among the set ones
C5_Witness ==
    /\ ppc = "built"
    /\ SetFields(customizations) = {2, 5, 6}
    /\ custom_css = << "Use large font sizes",
                       "Add smooth CSS animations and transitions",
                       "Add a sticky navigation bar" >>

(***************************************************************************)
(* The claims about the generate button handler and the session (Spec).    *)
(***************************************************************************)
RequestsOf(op) == {i \in DOMAIN requests : requests[i].op = op}
LastRequest == requests[Len(requests)]
LastMessage == LastRequest.outcome.exception.args[1]

\* C1: within one click, generate_html_css is called only after analyze_design
\* returned success; after a failed analysis no synthesis request is made.
C1_SynthesisOnlyAfterSuccessfulAnalysis ==
    (RequestsOf("generate_html_css") # {})
        => /\ analysis # None
           /\ "raw_analysis" \in DOMAIN analysis
           /\ analysis.success
           /\ requests[1].op = "analyze_design"
           /\ ~requests[1].outcome.raised
           /\ RequestsOf("generate_html_css") = {2}

\* C1's case: a click whose analysis failed and whose run is over with the one
\* request made, after an earlier click that went through synthesis
C1_Witness ==
    /\ pc = "idle"
    /\ run = 2
    /\ html_run = 1
    /\ analysis # None /\ ~analysis.success
    /\ Len(requests) = 1
    /\ requests[1].op = "analyze_design"

\* C7: when the service call raises, the operation's result is the failure
\* result with the service's message and nothing else, and the operation has
\* made exactly one request.
C7_FailureResultCarriesServiceMessage ==
    /\ (pc = "analyzed" /\ LastRequest.outcome.raised)
          => /\ analysis = [error |-> LastMessage, success |-> FALSE]
             /\ Cardinality(RequestsOf("analyze_design")) = 1
             /\ Len(requests) = 1
    /\ (pc = "generated" /\ LastRequest.outcome.raised)
          => /\ result = [error |-> LastMessage, success |-> FALSE]
             /\ Cardinality(RequestsOf("generate_html_css")) = 1
             /\ Len(requests) = 2

\* C7's case: the analysis request raised "quota exceeded"
C7_Witness ==
    /\ pc = "analyzed"
    /\ LastRequest.outcome.raised
    /\ LastMessage = "quota exceeded"
    /\ analysis.error = "quota exceeded"

\* C9: between clicks, when the session state holds an analysis and a
\* generated document, both were written by the same click.
C9_StoredPairFromSameClick ==
    (pc = "idle" /\ session_state.analysis # None
                 /\ session_state.generated_html # None)
        => html_run = analysis_run
====
